---- MODULE Spec2Model ----
(***************************************************************************)
(* Model of session_2/flash_attention.py: the host function                *)
(* FlashAttention.forward, the Triton kernel _attn_fwd it launches over a  *)
(* grid of work units, FlashAttention.backward and the kernel              *)
(* _attn_bwd_preprocess.                                                   *)
(*                                                                         *)
(* Tensors are flat memories (functions from addresses 0..n-1), addressed  *)
(* as the kernel addresses them: base + row * stride_seq + col *           *)
(* stride_dim.  The kernel's loads and stores carry no boundary_check, so  *)
(* a row past SEQ_LEN lands in the next (batch, head) slice, or past the   *)
(* allocation, where a load yields a nondeterministic value.               *)
(*                                                                         *)
(* float32 is modelled as fixed point with ExpBits fractional bits; exp is *)
(* the base-2 exponential, which underflows to 0 below -ExpBits; log is    *)
(* kept symbolic: an element of M is the pair <<m, l>> standing for        *)
(* m + log(l).  An element of O is the pair <<num, den>> standing for the  *)
(* quotient O_block / softmax_denom.  The autotuned block sizes 64 and 128 *)
(* are scaled to BlockScale and 2 * BlockScale.                            *)
(***************************************************************************)
EXTENDS Integers, Sequences, FiniteSets, TLC

\* ---------------------------------------------------------------- bounds
MaxBatch == 2
MaxHeads == 2
MaxSeqLen == 4
MaxHeadDim == 2
\* the largest number of elements of Q
MaxNumel == 4
BlockScale == 2
ExpBits == 4

\* ------------------------------------------------------ program constants
\* inf = 1.0e6: the finite sentinel added to masked scores
inf == 1000000
\* -float('inf'), the initial running maximum
NegInfinity == -1000000000
\* atol = 1e-2 of test_op, as 1 / AtolInv
AtolInv == 100

\* the autotune configurations (64, 64) and (128, 128), scaled
Configs ==
  { [BLOCK_SIZE_Q |-> BlockScale, BLOCK_SIZE_KV |-> BlockScale],
    [BLOCK_SIZE_Q |-> 2 * BlockScale, BLOCK_SIZE_KV |-> 2 * BlockScale] }

\* ------------------------------------------------------------ input sets
ScaleVals == {1}
BigVal == 2 * inf
HotVals == {1, BigVal}
\* what lies in memory past the end of an allocation: zeros or junk
Garbage == {"zeros", "junk"}
GarbageQ(g) == IF g = "junk" THEN 1 ELSE 0
GarbageK(g) == IF g = "junk" THEN 1 ELSE 0
GarbageV(g) == IF g = "junk" THEN 50 ELSE 0

\* -------------------------------------------------------------- helpers
RECURSIVE Pow2(_)
Pow2(n) == IF n <= 0 THEN 1 ELSE 2 * Pow2(n - 1)

One == Pow2(ExpBits)

\* the sum of f[0], ..., f[n - 1]
RECURSIVE SumTo(_, _)
SumTo(f, n) == IF n <= 0 THEN 0 ELSE f[n - 1] + SumTo(f, n - 1)

\* tl.sum over a vector indexed from 0
FSum(f) == SumTo(f, Cardinality(DOMAIN f))

FMax(f) == CHOOSE m \in {f[x] : x \in DOMAIN f} : \A x \in DOMAIN f : f[x] <= m

Maximum(a, b) == IF a >= b THEN a ELSE b

\* a function, evaluated once
Eval(f) == f @@ <<>>

Abs(x) == IF x < 0 THEN -x ELSE x

\* triton.cdiv
cdiv(a, b) == (a + b - 1) \div b

\* tl.exp on the fixed-point grid: 2^x for x <= 0, 0 once it underflows
Exp(x) ==
  IF x < -ExpBits THEN 0
  ELSE IF x >= 0 THEN One * Pow2(x)
  ELSE One \div Pow2(-x)

\* a float32 product of two fixed-point numbers
FMul(a, b) == (a * b) \div One

\* Tensor.stride() of a contiguous tensor of shape sh = <<batch, heads, seq, dim>>
Stride(sh) == <<sh[2] * sh[3] * sh[4], sh[3] * sh[4], sh[4], 1>>

Numel(sh) == sh[1] * sh[2] * sh[3] * sh[4]

\* one element of a tl.load without boundary_check: the memory's value, or
\* whatever lies past the allocation
LoadElem(mem, a, g) == IF a \in DOMAIN mem THEN mem[a] ELSE g

\* ---------------------------------------------------------------- state
VARIABLES
  pc,            \* the host's place: "init", "assert_failed", "running",
                 \* "fwd_done", "bwd_assert_failed", "bwd_raised",
                 \* "pre_running", "pre_done"
  Qshape, Kshape, Vshape,
  Qm, Km, Vm,    \* the input tensors' memories
  softmax_scale,
  cfg,           \* the block sizes the autotuner picked
  Om, Mm,        \* the memories of O and M
  unit,          \* the forward work units, by <<query_block_idx, batch_head_idx>>
  Ow, Mw,        \* per address of O and M: the work units that stored to it
  oob,           \* <<tensor, "load" | "store", row>> with row >= SEQ_LEN
  wild,          \* <<tensor, address>>: stores past the allocation
  junk,          \* what the memory past the end of the tensors holds
  grads,         \* per element of dQ, dK and dV: the work units that stored to it
  dOm, Dm,       \* the memories of dO and D
  pre_done       \* the preprocessing work units that have run

vars == <<pc, Qshape, Kshape, Vshape, Qm, Km, Vm, softmax_scale, cfg, Om, Mm,
          unit, Ow, Mw, oob, wild, junk, grads, dOm, Dm, pre_done>>

fwdvars == <<Om, Mm, unit, Ow, Mw, oob, junk>>
bwdvars == <<grads, dOm, Dm, pre_done>>
inputs == <<Qshape, Kshape, Vshape, Qm, Km, Vm, softmax_scale, cfg>>

BATCH_SIZE == Qshape[1]
NUM_HEADS == Qshape[2]
SEQ_LEN == Qshape[3]
HEAD_DIM == Qshape[4]

BQ == cfg.BLOCK_SIZE_Q
BKV == cfg.BLOCK_SIZE_KV

Rows == 0 .. BQ - 1
Cols == 0 .. BKV - 1
Dims == 0 .. HEAD_DIM - 1

\* the value of an element of O that was never stored (torch.empty_like)
Uninit == <<0, 0>>
\* torch.zeros: 0 = 0 + log(1)
ZeroM == <<0, One>>

\* ----------------------------------------------------------------- Init
Shapes ==
  { sh \in (1 .. MaxBatch) \X (1 .. MaxHeads) \X (1 .. MaxSeqLen) \X (1 .. MaxHeadDim) :
      sh[1] * sh[2] * sh[3] * sh[4] <= MaxNumel }

\* shapes of K or V that differ from Q's in one dimension
Mismatched(sh) ==
  { <<sh[1] + 1, sh[2], sh[3], sh[4]>>, <<sh[1], sh[2] + 1, sh[3], sh[4]>>,
    <<sh[1], sh[2], sh[3] + 1, sh[4]>>, <<sh[1], sh[2], sh[3], sh[4] + 1>> }

\* K is zero but for one element; Q and V number their elements
KMem(sh, hot, hv) == [a \in 0 .. Numel(sh) - 1 |-> IF a = hot THEN hv ELSE 0]
VMem(sh) == [a \in 0 .. Numel(sh) - 1 |-> a + 1]
QMem(sh) == [a \in 0 .. Numel(sh) - 1 |-> 1 + (a % 2)]

\* every pair of the two block sizes, for the kernel taken by itself
BlockPairs ==
  { [BLOCK_SIZE_Q |-> bq, BLOCK_SIZE_KV |-> bkv] :
      bq \in {BlockScale, 2 * BlockScale}, bkv \in {BlockScale, 2 * BlockScale} }

InitShared ==
  /\ pc = "init"
  /\ junk = "zeros"
  /\ grads = <<>>
  /\ dOm = <<>>
  /\ Dm = <<>>
  /\ pre_done = {}
  /\ Om = <<>>
  /\ Mm = <<>>
  /\ unit = <<>>
  /\ Ow = <<>>
  /\ Mw = <<>>
  /\ oob = {}
  /\ wild = {}

InitInputs ==
  /\ Qshape \in Shapes
  /\ \/ /\ Kshape = Qshape
        /\ Vshape = Qshape
        /\ \E hot \in -1 .. Numel(Qshape) - 1, hv \in HotVals :
             /\ hot = -1 => hv = 1
             /\ Km = KMem(Kshape, hot, hv)
        /\ softmax_scale \in ScaleVals
     \/ /\ \/ Kshape \in Mismatched(Qshape) /\ Vshape = Qshape
           \/ Kshape = Qshape /\ Vshape \in Mismatched(Qshape)
        /\ Km = KMem(Kshape, -1, 1)
        /\ softmax_scale = 1
  /\ Qm = QMem(Qshape)
  /\ Vm = VMem(Vshape)
  /\ InitShared

Init == InitInputs /\ cfg \in Configs

InitAnyBlocks == InitInputs /\ cfg \in BlockPairs

\* ------------------------------------------------- FlashAttention.forward
Grid ==
  { <<qb, bh>> : qb \in 0 .. cdiv(SEQ_LEN, BQ) - 1,
                 bh \in 0 .. BATCH_SIZE * NUM_HEADS - 1 }

NewUnit ==
  [ pc |-> "start", Q_block |-> <<>>, start_kv_idx |-> 0, K_ptr |-> 0,
    V_ptr |-> 0, s_max |-> <<>>, softmax_denom |-> <<>>, O_block |-> <<>>,
    visited |-> <<>>, shown |-> <<>> ]

\* -------------------------------------------------------------- _attn_fwd
batch_idx(u) == u[2] \div NUM_HEADS
head_idx(u) == u[2] % NUM_HEADS

\* line 286: the one offset used for the bases of Q, K, V and O
qkv_offset(u) == batch_idx(u) * Stride(Qshape)[1] + head_idx(u) * Stride(Qshape)[2]

\* line 358
offs_q(u, r) == u[1] * BQ + r

\* line 364
end_key_idx(u) == (u[1] + 1) * BQ

\* the address of element (row, col) of a block pointer made with strides
\* (sseq, sdim) at sequence offset off
BlockAddr(base, off, row, col, sseq, sdim) == base + (off + row) * sseq + col * sdim

\* the rows of a tile that lie at or past SEQ_LEN
PastSeq(off, n) == { off + r : r \in 0 .. n - 1 } \cap { x \in 0 .. off + n : x >= SEQ_LEN }

\* whether a tile of n rows at off reaches past the memory's allocation
PastAlloc(mem, base, off, n, sseq, sdim) ==
  \E r \in 0 .. n - 1, d \in Dims : BlockAddr(base, off, r, d, sseq, sdim) \notin DOMAIN mem

\* tl.load of a (n, HEAD_DIM) tile
LoadTile(mem, base, off, n, sseq, sdim, g) ==
  Eval([ r \in 0 .. n - 1 |->
           Eval([ d \in Dims |-> LoadElem(mem, BlockAddr(base, off, r, d, sseq, sdim), g) ]) ])

\* whether work unit u reads past the end of the memory of Q, K or V
ReadsPastAlloc(u) ==
  \/ PastAlloc(Qm, qkv_offset(u), u[1] * BQ, BQ, Stride(Qshape)[3], Stride(Qshape)[4])
  \/ PastAlloc(Km, qkv_offset(u), 0, cdiv(end_key_idx(u), BKV) * BKV,
               Stride(Kshape)[3], Stride(Kshape)[4])
  \/ PastAlloc(Vm, qkv_offset(u), 0, cdiv(end_key_idx(u), BKV) * BKV,
               Stride(Vshape)[3], Stride(Vshape)[4])

\* the assert of line 9 fails: no tensor is allocated, no kernel launched
ForwardAssertFails ==
  /\ pc = "init"
  /\ ~(Qshape[4] = Kshape[4] /\ Kshape[4] = Vshape[4])
  /\ pc' = "assert_failed"
  /\ UNCHANGED <<inputs, fwdvars, wild, bwdvars>>

\* lines 8-30: the assert holds, O and M are allocated, the grid is launched
ForwardLaunch ==
  /\ pc = "init"
  /\ Qshape[4] = Kshape[4] /\ Kshape[4] = Vshape[4]
  /\ pc' = "running"
  /\ Om' = [a \in 0 .. Numel(Qshape) - 1 |-> Uninit]
  /\ Mm' = [a \in 0 .. BATCH_SIZE * NUM_HEADS * SEQ_LEN - 1 |-> ZeroM]
  /\ Ow' = [a \in 0 .. Numel(Qshape) - 1 |-> {}]
  /\ Mw' = [a \in 0 .. BATCH_SIZE * NUM_HEADS * SEQ_LEN - 1 |-> {}]
  /\ unit' = [u \in Grid |-> NewUnit]
  /\ junk' \in Garbage
  /\ (\E u \in Grid : ReadsPastAlloc(u)) \/ junk' = "zeros"
  /\ UNCHANGED <<inputs, oob, wild, bwdvars>>

\* lines 345-351: the accumulators before the first key/value block
Accumulators(st) ==
  [ st EXCEPT
      !.start_kv_idx = 0, !.K_ptr = 0, !.V_ptr = 0,
      !.s_max = [r \in Rows |-> NegInfinity],
      !.softmax_denom = [r \in Rows |-> 0],
      !.O_block = [r \in Rows |-> [d \in Dims |-> 0]],
      !.visited = <<>>,
      !.shown = [r \in Rows |-> <<>>] ]

\* lines 278-359: the block pointers, the accumulators, the load of Q_block
UnitStart(u) ==
  /\ pc = "running"
  /\ unit[u].pc = "start"
  /\ unit' = [unit EXCEPT ![u] =
       Accumulators([ @ EXCEPT
           !.pc = "loop",
           !.Q_block = LoadTile(Qm, qkv_offset(u), u[1] * BQ, BQ,
                                Stride(Qshape)[3], Stride(Qshape)[4],
                                GarbageQ(junk)) ]) ]
  /\ oob' = oob \cup { <<"Q", "load", x>> : x \in PastSeq(u[1] * BQ, BQ) }
  /\ UNCHANGED <<pc, inputs, Om, Mm, Ow, Mw, wild, junk, bwdvars>>

\* a mask that leaves out the diagonal
causal_mask_strict(oq, start_kv_idx, c) == oq > start_kv_idx + c

\* line 366
causal_mask(oq, start_kv_idx, c) == oq >= start_kv_idx + c

\* a block pointer that is never moved
advance_stuck(ptr, n) == ptr

\* lines 409-410: tl.advance of a block pointer along the sequence axis
advance(ptr, n) == ptr + n

\* lines 376-380
S_block(Qb, Kb, u, start) ==
  Eval([ r \in Rows |->
    Eval([ c \in Cols |->
          FSum([d \in Dims |-> Qb[r][d] * Kb[c][d]]) * softmax_scale
            + (IF causal_mask(offs_q(u, r), start, c) THEN 0 ELSE -inf) ]) ])

\* lines 383-406: one step of the online softmax on the rows of a work unit
OnlineSoftmax(st, S, Vb) ==
  LET local_s_max == Eval([r \in Rows |-> FMax(S[r])])
      new_s_max == Eval([r \in Rows |-> Maximum(st.s_max[r], local_s_max[r])])
      corrective_factor == Eval([r \in Rows |-> Exp(st.s_max[r] - new_s_max[r])])
      P_block == Eval([r \in Rows |-> Eval([c \in Cols |-> Exp(S[r][c] - new_s_max[r])])])
      P_rowsum == Eval([r \in Rows |-> FSum(P_block[r])])
  IN [ st EXCEPT
         !.softmax_denom =
            [r \in Rows |-> FMul(corrective_factor[r], st.softmax_denom[r]) + P_rowsum[r]],
         !.O_block =
            [r \in Rows |->
               [d \in Dims |->
                  FMul(st.O_block[r][d], corrective_factor[r])
                    + FSum([c \in Cols |-> P_block[r][c] * Vb[c][d]]) ] ],
         !.s_max = [r \in Rows |-> Maximum(st.s_max[r], local_s_max[r])] ]

\* lines 365-410: one iteration of the loop over the key/value blocks, on the
\* memories Kmem and Vmem
IterResult(st, u, Kmem, Vmem) ==
  LET start == st.start_kv_idx
      Kb == LoadTile(Kmem, qkv_offset(u), st.K_ptr, BKV, Stride(Kshape)[3],
                     Stride(Kshape)[4], GarbageK(junk))
      Vb == LoadTile(Vmem, qkv_offset(u), st.V_ptr, BKV, Stride(Vshape)[3],
                     Stride(Vshape)[4], GarbageV(junk))
      S == S_block(st.Q_block, Kb, u, start)
      nx == OnlineSoftmax(st, S, Vb)
  IN [ nx EXCEPT
         !.visited = Append(st.visited,
                            [start_kv_idx |-> start, K_off |-> st.K_ptr, V_off |-> st.V_ptr]),
         !.shown = [r \in Rows |->
                      st.shown[r] \o
                        [k \in 1 .. BKV |-> <<start + k - 1,
                                              causal_mask(offs_q(u, r), start, k - 1)>>]],
         !.K_ptr = advance(st.K_ptr, BKV),
         !.V_ptr = advance(st.V_ptr, BKV),
         !.start_kv_idx = start + BKV ]

UnitIter(u) ==
  /\ pc = "running"
  /\ unit[u].pc = "loop"
  /\ unit[u].start_kv_idx < end_key_idx(u)
  /\ unit' = [unit EXCEPT ![u] = IterResult(unit[u], u, Km, Vm)]
  /\ oob' = oob \cup { <<"K", "load", x>> : x \in PastSeq(unit[u].K_ptr, BKV) }
                \cup { <<"V", "load", x>> : x \in PastSeq(unit[u].V_ptr, BKV) }
  /\ UNCHANGED <<pc, inputs, Om, Mm, Ow, Mw, wild, junk, bwdvars>>

\* line 422: the addresses of the rows of M (stride_M_seq is not applied)
offs_m(u, r) ==
  offs_q(u, r) + batch_idx(u) * (NUM_HEADS * SEQ_LEN) + head_idx(u) * SEQ_LEN

O_addr(u, r, d) ==
  BlockAddr(qkv_offset(u), u[1] * BQ, r, d, Stride(Qshape)[3], Stride(Qshape)[4])

\* lines 412-423: the loop is over; normalise, store O_block and M
UnitStore(u) ==
  /\ pc = "running"
  /\ unit[u].pc = "loop"
  /\ unit[u].start_kv_idx >= end_key_idx(u)
  /\ LET st == unit[u]
         ocell == { <<r, d>> \in Rows \X Dims : O_addr(u, r, d) \in DOMAIN Om }
         mrow == { r \in Rows : offs_m(u, r) \in DOMAIN Mm }
     IN /\ Om' = [a \in DOMAIN Om |->
                    IF \E x \in ocell : O_addr(u, x[1], x[2]) = a
                    THEN LET x == CHOOSE y \in ocell : O_addr(u, y[1], y[2]) = a
                         IN <<st.O_block[x[1]][x[2]], st.softmax_denom[x[1]]>>
                    ELSE Om[a]]
        /\ Ow' = [a \in DOMAIN Ow |->
                    IF \E x \in ocell : O_addr(u, x[1], x[2]) = a
                    THEN Ow[a] \cup {u} ELSE Ow[a]]
        /\ Mm' = [a \in DOMAIN Mm |->
                    IF \E r \in mrow : offs_m(u, r) = a
                    THEN LET r == CHOOSE y \in mrow : offs_m(u, y) = a
                         IN <<st.s_max[r], st.softmax_denom[r]>>
                    ELSE Mm[a]]
        /\ Mw' = [a \in DOMAIN Mw |->
                    IF \E r \in mrow : offs_m(u, r) = a
                    THEN Mw[a] \cup {u} ELSE Mw[a]]
        /\ wild' = wild
             \cup { <<"O", O_addr(u, x[1], x[2])>> : x \in (Rows \X Dims) \ ocell }
             \cup { <<"M", offs_m(u, r)>> : r \in Rows \ mrow }
  /\ oob' = oob \cup { <<"O", "store", x>> : x \in PastSeq(u[1] * BQ, BQ) }
                \cup { <<"M", "store", x>> : x \in PastSeq(u[1] * BQ, BQ) }
  /\ unit' = [unit EXCEPT ![u].pc = "done"]
  /\ UNCHANGED <<pc, inputs, junk, bwdvars>>

\* lines 61-64: every work unit has finished; forward returns O
ForwardReturn ==
  /\ pc = "running"
  /\ \A u \in DOMAIN unit : unit[u].pc = "done"
  /\ pc' = "fwd_done"
  /\ UNCHANGED <<inputs, fwdvars, wild, bwdvars>>

\* ------------------------------------------------------------ rationals
RECURSIVE GCD(_, _)
GCD(a, b) == IF b = 0 THEN a ELSE GCD(b, a % b)

\* the quotient x[1] / x[2] in lowest terms; <<0, 0>> is no number
Norm(x) ==
  IF x[2] = 0 THEN <<0, 0>>
  ELSE LET g == GCD(Abs(x[1]), x[2]) IN <<x[1] \div g, x[2] \div g>>

RMul(x, y) == Norm(<<x[1] * y[1], x[2] * y[2]>>)
RAdd(x, y) == Norm(<<x[1] * y[2] + y[1] * x[2], x[2] * y[2]>>)

RECURSIVE RSumTo(_, _)
RSumTo(f, n) == IF n <= 0 THEN <<0, 1>> ELSE RAdd(f[n - 1], RSumTo(f, n - 1))

\* ------------------------------------------------ FlashAttention.backward
\* lines 67-85: the asserts on dO and the strides, the allocation of dQ, dK,
\* dV and D, and Q.shape(3), a call of a torch.Size, which raises TypeError
\* before any kernel is launched
Backward ==
  /\ pc = "fwd_done"
  /\ \E contiguous \in BOOLEAN :
       IF contiguous /\ Stride(Qshape) = Stride(Kshape) /\ Stride(Kshape) = Stride(Vshape)
       THEN /\ pc' = "bwd_raised"
            /\ grads' = [t \in {"dQ", "dK", "dV"} |-> [a \in 0 .. Numel(Qshape) - 1 |-> {}]]
            /\ Dm' = [a \in DOMAIN Mm |-> Uninit]
       ELSE /\ pc' = "bwd_assert_failed"
            /\ UNCHANGED <<grads, Dm>>
  /\ UNCHANGED <<inputs, fwdvars, wild, dOm, pre_done>>

\* -------------------------------------------------- _attn_bwd_preprocess
\* lines 88-110, as a launch of the kernel by itself: d_grid has one work
\* unit per block of BLOCK_SIZE_Q rows and per (batch, head); BLOCK_SIZE_SEQ
\* is that block size
DOVals == {3}

PreprocessLaunch ==
  /\ pc = "fwd_done"
  /\ Kshape = Qshape /\ Vshape = Qshape
  /\ pc' = "pre_running"
  /\ \E dv \in DOVals : dOm' = [a \in DOMAIN Om |-> dv + (a % 2)]
  /\ Dm' = [a \in DOMAIN Mm |-> Uninit]
  /\ pre_done' = {}
  /\ UNCHANGED <<inputs, fwdvars, wild, grads>>

\* line 192
offs_seq(u, r) == u[1] * BQ + r

\* lines 194-198 (stride_O_dim is not applied)
offs_o(u, r, d) ==
  batch_idx(u) * Stride(Qshape)[1] + head_idx(u) * Stride(Qshape)[2]
    + offs_seq(u, r) * Stride(Qshape)[3] + d

\* lines 205-208: batch_head_idx, not head_idx, multiplies stride_D_head
offs_di(u, r) ==
  batch_idx(u) * (NUM_HEADS * SEQ_LEN) + u[2] * SEQ_LEN + offs_seq(u, r)

\* lines 200-201: tl.load(offs_o), the same offsets for O_block and for
\* dO_block; both are read as elements of O, the only tensor offs_o is built for
PreLoad(a) == IF a \in DOMAIN Om THEN Norm(Om[a]) ELSE <<GarbageV(junk), 1>>

\* line 204
Di_block(u) ==
  [ r \in Rows |->
      LET O_block == [d \in Dims |-> PreLoad(offs_o(u, r, d))]
          dO_block == [d \in Dims |-> PreLoad(offs_o(u, r, d))]
      IN RSumTo([d \in Dims |-> RMul(O_block[d], dO_block[d])], HEAD_DIM) ]

\* lines 186-209: one work unit of the preprocessing kernel
PreprocessUnit(u) ==
  /\ pc = "pre_running"
  /\ u \notin pre_done
  /\ LET Di == Di_block(u)
         rows == { r \in Rows : offs_di(u, r) \in DOMAIN Dm }
     IN /\ Dm' = [a \in DOMAIN Dm |->
                    IF \E r \in rows : offs_di(u, r) = a
                    THEN Di[CHOOSE r \in rows : offs_di(u, r) = a]
                    ELSE Dm[a]]
        /\ wild' = wild \cup { <<"D", offs_di(u, r)>> : r \in Rows \ rows }
  /\ pre_done' = pre_done \cup {u}
  /\ UNCHANGED <<pc, inputs, fwdvars, grads, dOm>>

PreprocessReturn ==
  /\ pc = "pre_running"
  /\ pre_done = DOMAIN unit
  /\ pc' = "pre_done"
  /\ UNCHANGED <<inputs, fwdvars, wild, bwdvars>>

Next ==
  \/ ForwardAssertFails
  \/ ForwardLaunch
  \/ \E u \in DOMAIN unit : UnitStart(u)
  \/ \E u \in DOMAIN unit : UnitIter(u)
  \/ \E u \in DOMAIN unit : UnitStore(u)
  \/ ForwardReturn
  \/ Backward
  \/ PreprocessLaunch
  \/ \E u \in DOMAIN unit : PreprocessUnit(u)
  \/ PreprocessReturn

Spec == Init /\ [][Next]_vars

\* the kernel under every pair of block sizes
SpecAnyBlocks == InitAnyBlocks /\ [][Next]_vars

\* ------------------------------------------ test_op's reference (452-457)
Matched == Kshape = Qshape /\ Vshape = Qshape

Slices == (0 .. BATCH_SIZE - 1) \X (0 .. NUM_HEADS - 1)

\* the addresses of Q[b, h, i, d] and of M[b, h, i] in a contiguous tensor
Idx4(b, h, i, d) ==
  b * Stride(Qshape)[1] + h * Stride(Qshape)[2] + i * Stride(Qshape)[3] + d
Idx3(b, h, i) == (b * NUM_HEADS + h) * SEQ_LEN + i

\* line 454: (Q @ K^T * softmax_scale)[b, h, i, j]
RefScore(b, h, i, j) ==
  FSum([d \in Dims |-> Qm[Idx4(b, h, i, d)] * Km[Idx4(b, h, j, d)]]) * softmax_scale

\* lines 455-456: the softmax of row i over the positions the mask keeps,
\* j <= i, as exponentials of the scores less their maximum
RefP(b, h, i) ==
  LET s == [j \in 0 .. i |-> RefScore(b, h, i, j)]
      m == FMax(s)
  IN Eval([j \in 0 .. i |-> Exp(s[j] - m)])

\* line 457: ref_O[b, h, i, d], as numerator and denominator
ref_O(b, h, i, d) ==
  LET P == RefP(b, h, i)
  IN << SumTo([j \in 0 .. i |-> P[j] * Vm[Idx4(b, h, j, d)]], i + 1), SumTo(P, i + 1) >>

\* line 465: torch.allclose(ref_O, flash_out, atol = 1e-2, rtol = 0) on one element
Close(x, y) ==
  /\ x[2] > 0
  /\ y[2] > 0
  /\ AtolInv * Abs(x[1] * y[2] - y[1] * x[2]) <= x[2] * y[2]

\* ----------------------------------------------------------------- claims

\* C1: once forward has returned, every element of O equals, within
\* atol = 1e-2, the reference softmax(mask(Q @ K^T * softmax_scale)) @ V.
C1_ForwardMatchesReference ==
  (pc = "fwd_done" /\ Matched) =>
    \A sl \in Slices, i \in 0 .. SEQ_LEN - 1, d \in Dims :
      Close(Om[Idx4(sl[1], sl[2], i, d)], ref_O(sl[1], sl[2], i, d))

\* the loop of a work unit, run again from the accumulators' first values on
\* the memories Kmem and Vmem
RECURSIVE Rerun(_, _, _, _)
Rerun(st, u, Kmem, Vmem) ==
  IF st.start_kv_idx < end_key_idx(u)
  THEN Rerun(IterResult(st, u, Kmem, Vmem), u, Kmem, Vmem)
  ELSE st

SameRow(x, y, r) ==
  /\ x.O_block[r] = y.O_block[r]
  /\ x.softmax_denom[r] = y.softmax_denom[r]
  /\ x.s_max[r] = y.s_max[r]

PerturbVals == {3, BigVal}

\* C2: the row i of O and the M[i] a work unit computes do not change when
\* an element of a row j > i of K or of V of the same (batch, head) changes.
C2_CausalRows ==
  (pc = "fwd_done" /\ Matched) =>
    \A u \in DOMAIN unit, r \in Rows :
      offs_q(u, r) < SEQ_LEN =>
        \A j \in offs_q(u, r) + 1 .. SEQ_LEN - 1, d \in Dims, v \in PerturbVals :
          LET a == qkv_offset(u) + j * Stride(Qshape)[3] + d
              st0 == Accumulators(unit[u])
          IN /\ SameRow(Rerun(st0, u, [Km EXCEPT ![a] = v], Vm), unit[u], r)
             /\ SameRow(Rerun(st0, u, Km, [Vm EXCEPT ![a] = v]), unit[u], r)

\* C3: no element of O or of M is ever stored to by two work units, and once
\* forward has returned each has been stored to by one.
C3_OneWriterPerElement ==
  /\ \A a \in DOMAIN Ow : Cardinality(Ow[a]) <= 1
  /\ \A a \in DOMAIN Mw : Cardinality(Mw[a]) <= 1
  /\ pc = "fwd_done" =>
       /\ \A a \in DOMAIN Ow : Cardinality(Ow[a]) = 1
       /\ \A a \in DOMAIN Mw : Cardinality(Mw[a]) = 1

\* C4: once backward is over, every element of dQ, dK and dV has been stored
\* to by exactly one work unit.
C4_GradientsWrittenOnce ==
  pc = "bwd_raised" =>
    \A t \in DOMAIN grads : \A a \in DOMAIN grads[t] : Cardinality(grads[t][a]) = 1

\* C5: once every preprocessing work unit has run, D[b, h, s] is the sum over
\* d of O[b, h, s, d] * dO[b, h, s, d], and nothing was stored outside D.
C5_DIsRowsumOfOdO ==
  pc = "pre_done" =>
    /\ \A sl \in Slices, i \in 0 .. SEQ_LEN - 1 :
         Dm[Idx3(sl[1], sl[2], i)] =
           RSumTo([d \in Dims |->
                     RMul(Norm(Om[Idx4(sl[1], sl[2], i, d)]),
                          <<dOm[Idx4(sl[1], sl[2], i, d)], 1>>)], HEAD_DIM)
    /\ \A w \in wild : w[1] # "D"

\* C6: once forward has returned, M[b, h, i] = m + log(l) is the logsumexp
\* of the scores of row i over j <= i: no score exceeds m, and the
\* exponentials of the scores less m sum to l, within the tolerance.
C6_MIsLogSumExp ==
  (pc = "fwd_done" /\ Matched) =>
    \A sl \in Slices, i \in 0 .. SEQ_LEN - 1 :
      LET M == Mm[Idx3(sl[1], sl[2], i)]
      IN /\ M[2] > 0
         /\ \A j \in 0 .. i : RefScore(sl[1], sl[2], i, j) <= M[1]
         /\ AtolInv * Abs(SumTo([j \in 0 .. i |-> Exp(RefScore(sl[1], sl[2], i, j) - M[1])],
                                i + 1) - M[2]) <= M[2]

\* C7: when the shapes of Q, K and V differ in any dimension, forward fails
\* before a work unit is launched and before O or M is written.
C7_MismatchFailsFast ==
  ~Matched =>
    /\ pc \in {"init", "assert_failed"}
    /\ DOMAIN unit = {}
    /\ DOMAIN Om = {}

\* C8: a work unit visits the key/value blocks at the offsets 0, BLOCK_SIZE_KV,
\* 2 * BLOCK_SIZE_KV, ... below (query_block_idx + 1) * BLOCK_SIZE_Q, each
\* once and in that order, and the K and V block pointers are at the offset
\* start_kv_idx the causal mask is built from, at every iteration.
C8_AscendingBlocksInStep ==
  \A u \in DOMAIN unit :
    LET st == unit[u]
    IN st.pc \in {"loop", "done"} =>
         /\ \A k \in 1 .. Len(st.visited) :
              /\ st.visited[k].start_kv_idx = (k - 1) * BKV
              /\ st.visited[k].start_kv_idx < end_key_idx(u)
              /\ st.visited[k].K_off = st.visited[k].start_kv_idx
              /\ st.visited[k].V_off = st.visited[k].start_kv_idx
         /\ st.K_ptr = st.start_kv_idx
         /\ st.V_ptr = st.start_kv_idx
         /\ st.pc = "done" => Len(st.visited) * BKV >= end_key_idx(u)

\* a work unit that has visited two key/value blocks and stored its rows
C8_Witness ==
  \E u \in DOMAIN unit : unit[u].pc = "done" /\ Len(unit[u].visited) >= 2

\* how often key position j was shown to row r of a work unit with the mask true
TimesShown(st, r, j) ==
  Cardinality({ k \in 1 .. Len(st.shown[r]) : st.shown[r][k] = <<j, TRUE>> })

\* C9: for every pair of block sizes and every row i < SEQ_LEN of a work unit
\* whose loop is over, a key position j was shown with causal_mask true once
\* if j <= i and never if j > i, and the row's softmax_denom, by which its
\* output is divided, is positive.
C9_EachKeyOnceUpToDiagonal ==
  \A u \in DOMAIN unit : \A r \in Rows :
    LET st == unit[u]
        i == offs_q(u, r)
    IN (st.pc \in {"loop", "done"} /\ st.start_kv_idx >= end_key_idx(u) /\ i < SEQ_LEN) =>
         /\ \A j \in 0 .. end_key_idx(u) + BKV :
              TimesShown(st, r, j) = (IF j <= i THEN 1 ELSE 0)
         /\ st.softmax_denom[r] > 0

\* a stored row of a work unit with unequal block sizes that was shown a
\* masked key position
C9_Witness ==
  \E u \in DOMAIN unit : \E r \in Rows :
    /\ unit[u].pc = "done"
    /\ BQ # BKV
    /\ offs_q(u, r) < SEQ_LEN
    /\ \E k \in 1 .. Len(unit[u].shown[r]) : unit[u].shown[r][k][2] = FALSE
    /\ Len(unit[u].visited) >= 2

\* C10: no work unit of forward loads a row of Q, K or V or stores a row of
\* O or M whose sequence index is SEQ_LEN or more.
C10_NoRowPastSeqLen == oob = {}

====
